---- MODULE Spec2Model ----
(***************************************************************************)
(* Kiddos backend: the sliding-window rate limiter (app/rate_limiter.py    *)
(* over the Redis sorted-set wrappers of app/database.py) and the credit   *)
(* metered content generation flow (app/routers/content.py, app/worker.py, *)
(* app/routers/admin.py, app/models.py, app/fixed_content).                *)
(*                                                                         *)
(* Time is counted in ticks; TicksPerSecond ticks make one second, so that *)
(* float timestamps with a fractional part exist in the model.             *)
(***************************************************************************)
EXTENDS Integers, Sequences, FiniteSets, Bags, TLC

\* ---------------------------------------------------------------- bounds
TicksPerSecond == 2
MaxTime == 4
MaxCalls == 4
\* the (max_requests, window_seconds) pair of the policies of the model
MaxRequests == 2
WindowSeconds == 2

\* content sessions created, and the largest opening balance
MaxSessions == 2
MaxCredits == 3
\* purchases, admin adjustments and course awards made
MaxLedgerOps == 1
\* course completions and other ledger operations of one account
MaxAwards == 2
\* credits of one purchase; size of one admin adjustment
PurchaseCredits == 2
AdjustBy == 2

\* ------------------------------------------------------------- constants
UNLIMITED == 999
MAX_REGENERATIONS_PER_CONTENT == 3
\* RATE_LIMITS[tier]["registration"][0] for tier free and for the paid tiers
FreeRegistrationLimit == 30
PaidRegistrationLimit == 5
\* max_requests of @ip_rate_limit("registration", 3, 86400) on POST /register
RegistrationMaxRequests == 3

UserTier == {"free", "basic", "family"}

\* RATE_LIMITS: tier -> limit type -> (max_requests, window_seconds); the
\* windows and the quotas of content and login are scaled to the bounds
\* above, the registration quotas and the shape are the code's
ConfiguredTypes == {"content", "login", "registration"}

RATE_LIMITS ==
    [t \in UserTier |->
        [lt \in ConfiguredTypes |->
            IF lt = "registration"
            THEN <<IF t = "free" THEN FreeRegistrationLimit ELSE PaidRegistrationLimit,
                   WindowSeconds>>
            ELSE <<MaxRequests, WindowSeconds>>]]

\* the identifiers, limit types and tiers the calls of the model use
Identifiers == {"u1"}
LimitTypes == {"login", "custom"}
CallTiers == {"free"}
\* request.client.host of the clients of the unauthenticated endpoints: an
\* IPv4 address and the IPv4-mapped IPv6 address of another connection
Hosts == {"10.0.0.1", "::ffff:10.0.0.1"}
Keys == UserTier \X (LimitTypes \cup {"content", "registration"})
                \X (Identifiers \cup Hosts)

\* the account whose credits the model follows
UserId == "u1"

\* the store operations of one check_rate_limit call that can fail
StoreOps == {"prune", "count", "oldest", "insert", "expire"}
FailureModes == {StoreOps, {"prune"}, {"count"}, {"oldest"}, {"insert"}, {"expire"}}

NoTTL == -1
\* reset_at of a key without entries (None)
NoResetAt == -1

ContentType == {"story", "worksheet", "quiz", "exercise"}
\* the generation requests tried, <<content_type, include_images>>: a story
\* with images costs 3 credits, a worksheet with images 4
Requests == {<<"story", TRUE>>, <<"worksheet", TRUE>>}

VARIABLES
    now,        \* time.time(), in ticks
    zset,       \* Redis: key -> the scores of the sorted set (member = str(score))
    expireAt,   \* Redis: key -> the tick at which the key expires, or NoTTL
    admitLog,   \* key -> the times, still inside the window, of the calls a quota admitted
    calls,      \* number of check_rate_limit calls made
    last,       \* the latest check_rate_limit call and what it returned
    acctTier,   \* users.tier of the account
    credits,    \* users.credits of the account (committed)
    credits0,   \* the balance the account started with
    sessions,   \* content_sessions rows (committed), by creation order
    txs,        \* credit_transactions rows (committed), a bag of rows
    queue,      \* Celery content_generation queue: session id -> queued tasks
    worker,     \* run -> the worker process executing the task: position,
                \* SQLAlchemy session state, and the result of its last run
    resp,       \* the HTTP response of the step just taken, when it served
                \* POST /content/generate
    earning,    \* user_credit_earnings row of the month, amounts in tenths
    query,      \* the latest limiter query (get_remaining_requests,
                \* get_usage_stats) and what it returned; an admitted
                \* check_rate_limit call clears it
    inflight,   \* caller -> the check_rate_limit call it is in the middle of:
                \* position, the clock value it read, the count it read
    args,       \* the arguments a function is about to be called with
    ret         \* the function call just made and the value it returned

limiterVars == <<now, zset, expireAt, admitLog, calls, last, query, inflight>>
callVars == <<args, ret>>
ledgerVars == <<acctTier, credits, credits0, sessions, txs, queue, worker, resp, earning>>
vars == <<now, zset, expireAt, admitLog, calls, last,
          acctTier, credits, credits0, sessions, txs, queue, worker, resp, earning,
          query, inflight, args, ret>>

\* ------------------------------------------------------- pure functions
Max(a, b) == IF a >= b THEN a ELSE b

\* Python int(): truncation toward zero of a / b, b > 0
IntDiv(a, b) == IF a >= 0 THEN a \div b ELSE -((-a) \div b)

Oldest(scores) == CHOOSE s \in scores : \A o \in scores : s <= o

\* a range removal that leaves the entries exactly at max_score in place
ZRemRangeBelowScore(scores, max_score) ==
    {s \in scores : ~(0 <= s /\ s < max_score)}

\* redis.zremrangebyscore(key, 0, max_score): both ends inclusive
ZRemRangeByScore(scores, max_score) ==
    {s \in scores : ~(0 <= s /\ s <= max_score)}

\* retry_after of a rejection, in whole seconds
RetryAfter(scores, window_seconds, t, oldestFails) ==
    IF oldestFails \/ scores = {}
    THEN window_seconds
    ELSE Max(1, IntDiv(Oldest(scores) + window_seconds * TicksPerSecond - t,
                       TicksPerSecond))

\* a limiter that falls back to a default policy when it knows none
LimitConfigWithDefault(limit_type, tier, window_seconds, max_requests) ==
    IF tier \in DOMAIN RATE_LIMITS /\ limit_type \in DOMAIN RATE_LIMITS[tier]
    THEN <<TRUE, RATE_LIMITS[tier][limit_type][1], RATE_LIMITS[tier][limit_type][2]>>
    ELSE IF window_seconds # 0 /\ max_requests # 0
         THEN <<TRUE, max_requests, window_seconds>>
         ELSE <<TRUE, MaxRequests, WindowSeconds>>

\* limit configuration of a call: <<limited, max_requests, window_seconds>>
LimitConfig(limit_type, tier, window_seconds, max_requests) ==
    IF tier \in DOMAIN RATE_LIMITS /\ limit_type \in DOMAIN RATE_LIMITS[tier]
    THEN <<TRUE, RATE_LIMITS[tier][limit_type][1], RATE_LIMITS[tier][limit_type][2]>>
    ELSE IF ~(window_seconds # 0 /\ max_requests # 0)
         THEN <<FALSE, 0, 0>>
         ELSE <<TRUE, max_requests, window_seconds>>

\* a limiter that records every attempt: a rejected call inserts its entry
\* and refreshes the expiry too
CheckRateLimitLoggingAttempts(scores, ttl, t, max_requests, window_seconds, failed) ==
    LET pruned == ZRemRangeByScore(scores, t - window_seconds * TicksPerSecond)
        current_count == Cardinality(pruned)
    IN [allowed |-> current_count < max_requests,
        remaining |-> Max(0, max_requests - current_count - 1),
        retry_after |-> IF current_count < max_requests THEN 0
                        ELSE RetryAfter(pruned, window_seconds, t, FALSE),
        scores |-> pruned \cup {t},
        ttl |-> t + window_seconds * TicksPerSecond,
        failed |-> {}]

\* RateLimiter.check_rate_limit on the sorted set `scores` with expiry `ttl`
\* at time t; `failed` is the set of store operations that raise inside the
\* RedisManager wrappers (which swallow the error and return 0 / False / []);
\* the result names the operations that ran and failed
CheckRateLimit(scores, ttl, t, max_requests, window_seconds, failed) ==
    LET pruned == IF "prune" \in failed THEN scores
                  ELSE ZRemRangeByScore(scores, t - window_seconds * TicksPerSecond)
        \* Redis removes a sorted set that became empty, and its TTL with it
        prunedTtl == IF pruned = {} THEN NoTTL ELSE ttl
        current_count == IF "count" \in failed THEN 0 ELSE Cardinality(pruned)
    IN  IF current_count >= max_requests
        THEN [allowed |-> FALSE, remaining |-> 0,
              retry_after |-> RetryAfter(pruned, window_seconds, t, "oldest" \in failed),
              scores |-> pruned, ttl |-> prunedTtl,
              failed |-> failed \cap {"prune", "count", "oldest"}]
        ELSE LET added == IF "insert" \in failed THEN pruned ELSE pruned \cup {t}
                 newTtl == IF "expire" \in failed \/ added = {}
                           THEN prunedTtl
                           ELSE t + window_seconds * TicksPerSecond
             IN [allowed |-> TRUE, remaining |-> max_requests - current_count - 1,
                 retry_after |-> 0, scores |-> added, ttl |-> newTtl,
                 failed |-> failed \cap {"prune", "count", "insert", "expire"}]

\* models.calculate_content_cost; the multipliers are in tenths
base_costs(content_type) ==
    CASE content_type = "story" -> 1
      [] content_type = "worksheet" -> 2
      [] content_type = "quiz" -> 2
      [] content_type = "exercise" -> 1
      [] OTHER -> 1

tier_multipliers(user_tier) ==
    CASE user_tier = "free" -> 10
      [] user_tier = "premium" -> 8
      [] user_tier = "enterprise" -> 5
      [] OTHER -> 10

\* the cost without the minimum of one credit
CostWithoutMinimum(content_type, user_tier, include_images) ==
    ((base_costs(content_type) + (IF include_images THEN 2 ELSE 0))
        * tier_multipliers(user_tier)) \div 10

calculate_content_cost(content_type, user_tier, include_images) ==
    LET image_cost == IF include_images THEN 2 ELSE 0
        total_cost == ((base_costs(content_type) + image_cost)
                        * tier_multipliers(user_tier)) \div 10
    IN Max(1, total_cost)

\* the balance check with the boundary on the wrong side
InsufficientCreditsAtBoundary(balance, cost) == balance <= cost

\* the balance checks of generate_content / regenerate_content (402) and of
\* the worker's charge block ("Insufficient credits")
InsufficientCredits(balance, cost) == balance < cost

\* ---------------------------------------------------------------- Init
NoCall == [key |-> <<"", "", "">>, at |-> 0, allowed |-> TRUE, remaining |-> 0,
           retry_after |-> 0, failed |-> {}, limited |-> FALSE,
           limits |-> <<0, 0>>]

NoQuery == [op |-> ""]

\* the callers whose check_rate_limit calls may overlap
Callers == {1, 2}

NoInflight == [pc |-> "idle", t |-> 0, count |-> 0, allowed |-> FALSE]

\* the query q read the sorted set of key <<tier, limit_type, identifier>>
Concerns(q, key) ==
    /\ q.op # ""
    /\ q.tier = key[1] /\ q.identifier = key[3]
    /\ q.op = "get_remaining_requests" => q.limit_type = key[2]

LimiterInit ==
    /\ now = 0
    /\ zset = [k \in Keys |-> {}]
    /\ expireAt = [k \in Keys |-> NoTTL]
    /\ admitLog = [k \in Keys |-> <<>>]
    /\ calls = 0
    /\ last = NoCall
    /\ query = NoQuery
    /\ inflight = [p \in Callers |-> NoInflight]

\* the executions of generation tasks: run s is the execution of the task of
\* session s, run MaxSessions + s a second execution of the same task
Runs == 1..(2 * MaxSessions)
SessionOf(r) == ((r - 1) % MaxSessions) + 1

IdleWorker == [pc |-> "idle", readCharged |-> FALSE, readCredits |-> 0,
               charge |-> FALSE, note |-> "", aborted |-> FALSE,
               dbError |-> FALSE, result |-> ""]

NoResponse == [op |-> "", code |-> 0, cost |-> 0]

LedgerInit ==
    /\ acctTier \in {"free", "basic"}
    /\ credits0 \in 0..MaxCredits
    /\ credits = credits0
    /\ sessions = <<>>
    /\ txs = EmptyBag
    /\ queue = [s \in 1..MaxSessions |-> 0]
    /\ worker = [r \in Runs |-> IdleWorker]
    /\ resp = NoResponse
    /\ earning = [credits_earned_total |-> 0, credits_earned_courses |-> 0,
                  credits_earned_bonuses |-> 0, cap_reached |-> FALSE]

NoArgs == [fn |-> ""]

\* no function call is under study
NoCallInit == args = NoArgs /\ ret = NoArgs

Init == LimiterInit /\ LedgerInit /\ NoCallInit

\* -------------------------------------------------------------- actions
\* the admissions of a log that lie in the rolling window (t - W, t]
InWindow(log, t) ==
    SelectSeq(log, LAMBDA a : a > t - WindowSeconds * TicksPerSecond)

\* a step that touches neither account nor sessions
NoLedgerStep ==
    /\ resp' = NoResponse
    /\ UNCHANGED <<acctTier, credits, credits0, sessions, txs, queue, worker, earning>>

\* the clock advances by one tick; Redis drops the keys whose TTL ran out
Tick ==
    /\ now < MaxTime
    /\ now' = now + 1
    /\ LET gone == {k \in Keys : expireAt[k] # NoTTL /\ expireAt[k] <= now + 1}
       IN /\ zset' = [k \in Keys |-> IF k \in gone THEN {} ELSE zset[k]]
          /\ expireAt' = [k \in Keys |-> IF k \in gone THEN NoTTL ELSE expireAt[k]]
    /\ admitLog' = [k \in Keys |-> InWindow(admitLog[k], now + 1)]
    /\ UNCHANGED <<calls, last, query, inflight, callVars>>
    /\ NoLedgerStep

\* one call of rate_limiter.check_rate_limit(identifier, limit_type, tier,
\* window_seconds, max_requests); 0 stands for None
AwaitCheckRateLimit(identifier, limit_type, tier, window_seconds, max_requests, failed) ==
    LET cfg == LimitConfig(limit_type, tier, window_seconds, max_requests)
        key == <<tier, limit_type, identifier>>
    IN  /\ calls < MaxCalls
        /\ calls' = calls + 1
        /\ UNCHANGED <<now, inflight>>
        /\ IF ~cfg[1]
           THEN /\ last' = [key |-> key, at |-> now, allowed |-> TRUE,
                            remaining |-> UNLIMITED, retry_after |-> 0,
                            failed |-> {}, limited |-> FALSE,
                            limits |-> <<max_requests, window_seconds>>]
                /\ UNCHANGED <<zset, expireAt, admitLog, query>>
           ELSE LET r == CheckRateLimit(zset[key], expireAt[key], now, cfg[2], cfg[3], failed)
                IN /\ zset' = [zset EXCEPT ![key] = r.scores]
                   /\ expireAt' = [expireAt EXCEPT ![key] = r.ttl]
                   /\ last' = [key |-> key, at |-> now, allowed |-> r.allowed,
                               remaining |-> r.remaining, retry_after |-> r.retry_after,
                               failed |-> r.failed, limited |-> TRUE,
                               limits |-> <<max_requests, window_seconds>>]
                   /\ admitLog' = IF r.allowed
                                  THEN [admitLog EXCEPT ![key] = Append(@, now)]
                                  ELSE admitLog
                   /\ query' = IF r.allowed /\ Concerns(query, key)
                                THEN NoQuery ELSE query

\* the call made on its own, by a caller that keeps no result of its own
CheckRateLimitCall(identifier, limit_type, tier, window_seconds, max_requests, failed) ==
    /\ AwaitCheckRateLimit(identifier, limit_type, tier, window_seconds, max_requests, failed)
    /\ UNCHANGED callVars

CheckCall(failed) ==
    \E id \in Identifiers, lt \in LimitTypes, t \in CallTiers, explicit \in BOOLEAN :
        CheckRateLimitCall(id, lt, t,
                           IF explicit THEN WindowSeconds ELSE 0,
                           IF explicit THEN MaxRequests ELSE 0, failed)

\* a call while the store answers every operation
HealthyCheck == CheckCall({}) /\ NoLedgerStep

\* a call during which some or all store operations fail
FaultyCheck ==
    /\ \E id \in Identifiers, t \in CallTiers, failed \in FailureModes :
            CheckRateLimitCall(id, "login", t, 0, 0, failed)
    /\ NoLedgerStep

\* a call on a configured limit type while the store answers
LoginCheck ==
    /\ \E id \in Identifiers, t \in CallTiers :
            CheckRateLimitCall(id, "login", t, 0, 0, {})
    /\ NoLedgerStep

\* a comparison that lets a call through when the quota is exactly used up
OverLimitAboveQuota(current_count, max_requests) == current_count > max_requests

\* the rejection test of check_rate_limit (line 78)
OverLimit(current_count, max_requests) == current_count >= max_requests

\* the key of the calls that may overlap: the login limit of the account
RaceKey == <<"free", "login", UserId>>

\* check_rate_limit on RaceKey, one store operation at a time, by a caller
\* whose call may be overlapped by another caller's: line 69 reads the clock
BeginCheck(p) ==
    /\ inflight[p].pc = "idle"
    /\ inflight' = [inflight EXCEPT ![p] = [NoInflight EXCEPT !.pc = "prune", !.t = now]]
    /\ UNCHANGED <<now, zset, expireAt, admitLog, calls, last, query, callVars>>
    /\ NoLedgerStep

\* line 72: zremrangebyscore(key, 0, now - window_seconds)
PruneStep(p) ==
    /\ inflight[p].pc = "prune"
    /\ LET pruned == ZRemRangeByScore(zset[RaceKey],
                        inflight[p].t - RATE_LIMITS["free"]["login"][2] * TicksPerSecond)
       IN /\ zset' = [zset EXCEPT ![RaceKey] = pruned]
          /\ expireAt' = [expireAt EXCEPT ![RaceKey] = IF pruned = {} THEN NoTTL ELSE @]
    /\ inflight' = [inflight EXCEPT ![p].pc = "count"]
    /\ UNCHANGED <<now, admitLog, calls, last, query, callVars>>
    /\ NoLedgerStep

\* lines 75-88: zcard, and the rejection when the count has reached the quota
CountStep(p) ==
    /\ inflight[p].pc = "count"
    /\ LET current_count == Cardinality(zset[RaceKey])
       IN inflight' = [inflight EXCEPT
                ![p].count = current_count,
                ![p].pc = IF OverLimit(current_count, RATE_LIMITS["free"]["login"][1])
                          THEN "done" ELSE "insert"]
    /\ UNCHANGED <<now, zset, expireAt, admitLog, calls, last, query, callVars>>
    /\ NoLedgerStep

\* line 91: zadd(key, {str(now): now})
InsertStep(p) ==
    /\ inflight[p].pc = "insert"
    /\ zset' = [zset EXCEPT ![RaceKey] = @ \cup {inflight[p].t}]
    /\ inflight' = [inflight EXCEPT ![p].pc = "expire"]
    /\ UNCHANGED <<now, expireAt, admitLog, calls, last, query, callVars>>
    /\ NoLedgerStep

\* lines 94-97: expire(key, window_seconds), and the call returns admitted;
\* EXPIRE does nothing when the key does not exist (any more)
ExpireStep(p) ==
    /\ inflight[p].pc = "expire"
    /\ expireAt' = [expireAt EXCEPT
            ![RaceKey] = IF zset[RaceKey] = {} THEN NoTTL
                         ELSE now + RATE_LIMITS["free"]["login"][2] * TicksPerSecond]
    /\ admitLog' = [admitLog EXCEPT ![RaceKey] = InWindow(Append(@, inflight[p].t), now)]
    /\ inflight' = [inflight EXCEPT ![p].pc = "done", ![p].allowed = TRUE]
    /\ UNCHANGED <<now, zset, calls, last, query, callVars>>
    /\ NoLedgerStep

Begin == \E p \in Callers : BeginCheck(p)
Prune == \E p \in Callers : PruneStep(p)
Count == \E p \in Callers : CountStep(p)
Insert == \E p \in Callers : InsertStep(p)
Expire == \E p \in Callers : ExpireStep(p)

\* a call on the login limit that no other call overlaps
SoloLogin ==
    /\ \A p \in Callers : inflight[p].pc \in {"idle", "done"}
    /\ LoginCheck

\* a count that takes an entry itself, as check_rate_limit does
RemainingAfterInsert(scores, ttl, t, max_requests, window_seconds, failed) ==
    LET r == CheckRateLimit(scores, ttl, t, max_requests, window_seconds, failed)
    IN [value |-> r.remaining, scores |-> r.scores, ttl |-> r.ttl]

\* RateLimiter.get_remaining_requests on the sorted set `scores` (lines
\* 120-130): prune, count, max(0, max_requests - count)
RemainingRequests(scores, ttl, t, max_requests, window_seconds, failed) ==
    LET pruned == IF "prune" \in failed THEN scores
                  ELSE ZRemRangeByScore(scores, t - window_seconds * TicksPerSecond)
        current_count == IF "count" \in failed THEN 0 ELSE Cardinality(pruned)
    IN [value |-> Max(0, max_requests - current_count),
        scores |-> pruned,
        ttl |-> IF pruned = {} THEN NoTTL ELSE ttl]

\* one call of rate_limiter.get_remaining_requests(identifier, limit_type, tier)
GetRemainingRequests(identifier, limit_type, tier, failed) ==
    LET key == <<tier, limit_type, identifier>>
        configured == tier \in DOMAIN RATE_LIMITS /\ limit_type \in DOMAIN RATE_LIMITS[tier]
        asked == [op |-> "get_remaining_requests", identifier |-> identifier,
                  limit_type |-> limit_type, tier |-> tier, at |-> now, value |-> 0]
    IN  /\ IF ~configured
           THEN /\ query' = [asked EXCEPT !.value = UNLIMITED]
                /\ UNCHANGED <<zset, expireAt>>
           ELSE LET r == RemainingRequests(zset[key], expireAt[key], now,
                                           RATE_LIMITS[tier][limit_type][1],
                                           RATE_LIMITS[tier][limit_type][2], failed)
                IN /\ query' = [asked EXCEPT !.value = r.value]
                   /\ zset' = [zset EXCEPT ![key] = r.scores]
                   /\ expireAt' = [expireAt EXCEPT ![key] = r.ttl]
        /\ UNCHANGED <<now, admitLog, calls, last, inflight, callVars>>
        /\ NoLedgerStep

\* a snapshot that counts the entries without pruning the expired ones first
UsageWithoutPrune(scores, ttl, t, max_requests, window_seconds) ==
    [limit |-> max_requests, used |-> Cardinality(scores),
     remaining |-> Max(0, max_requests - Cardinality(scores)),
     window_seconds |-> window_seconds,
     reset_at |-> IF scores = {} THEN NoResetAt
                  ELSE Oldest(scores) + window_seconds * TicksPerSecond,
     scores |-> scores, ttl |-> ttl]

\* the body of the loop of RateLimiter.get_usage_stats for one limit type
\* (lines 167-188) on the sorted set `scores`: the entry of the report, and
\* the sorted set and its TTL afterwards
UsageStats(scores, ttl, t, max_requests, window_seconds) ==
    LET pruned == ZRemRangeByScore(scores, t - window_seconds * TicksPerSecond)
        current_count == Cardinality(pruned)
    IN [limit |-> max_requests, used |-> current_count,
        remaining |-> Max(0, max_requests - current_count),
        window_seconds |-> window_seconds,
        reset_at |-> IF pruned = {} THEN NoResetAt
                     ELSE Oldest(pruned) + window_seconds * TicksPerSecond,
        scores |-> pruned,
        ttl |-> IF pruned = {} THEN NoTTL ELSE ttl]

\* one call of rate_limiter.get_usage_stats(identifier, tier), tier configured
GetUsageStats(identifier, tier) ==
    LET types == DOMAIN RATE_LIMITS[tier]
        u == [lt \in types |->
                UsageStats(zset[<<tier, lt, identifier>>],
                           expireAt[<<tier, lt, identifier>>], now,
                           RATE_LIMITS[tier][lt][1], RATE_LIMITS[tier][lt][2])]
        mine(k) == k[1] = tier /\ k[2] \in types /\ k[3] = identifier
    IN  /\ query' = [op |-> "get_usage_stats", identifier |-> identifier,
                     limit_type |-> "", tier |-> tier, at |-> now,
                     value |-> [lt \in types |->
                        [limit |-> u[lt].limit, used |-> u[lt].used,
                         remaining |-> u[lt].remaining,
                         window_seconds |-> u[lt].window_seconds,
                         reset_at |-> u[lt].reset_at]]]
        /\ zset' = [k \in Keys |-> IF mine(k) THEN u[k[2]].scores ELSE zset[k]]
        /\ expireAt' = [k \in Keys |-> IF mine(k) THEN u[k[2]].ttl ELSE expireAt[k]]
        /\ UNCHANGED <<now, admitLog, calls, last, inflight, callVars>>
        /\ NoLedgerStep

\* get_user_rate_limits(user_id, tier)
UsageQuery ==
    \E id \in Identifiers, t \in CallTiers : GetUsageStats(id, t)

\* a query while the store answers
RemainingQuery ==
    \E id \in Identifiers, lt \in LimitTypes, t \in CallTiers :
        GetRemainingRequests(id, lt, t, {})

LimiterNext == Tick \/ HealthyCheck

FaultyNext == Tick \/ LoginCheck \/ FaultyCheck

\* the limiter alone: one account that stays as it is
LimiterOnlyInit == Init /\ acctTier = "free" /\ credits0 = 0

\* the limiter over a store that answers
SpecLimiter == LimiterOnlyInit /\ [][LimiterNext]_vars

\* identifier.split(":"): the parts of an identifier between its colons
Segments(identifier) ==
    CASE identifier = "::ffff:10.0.0.1" -> <<"", "", "ffff", "10.0.0.1">>
      [] OTHER -> <<identifier>>

\* the Redis key f"rate_limit:{tier}:{limit_type}:{identifier}", split at ":"
KeySegments(key) == <<"rate_limit", key[1], key[2]>> \o Segments(key[3])

\* Redis glob matching of a pattern against a key, both split at ":"; a "*"
\* matches any string, colons included, so one segment or several
RECURSIVE GlobMatch(_, _)
GlobMatch(pattern, segs) ==
    IF pattern = <<>> THEN segs = <<>>
    ELSE IF segs = <<>> THEN FALSE
    ELSE IF Head(pattern) = "*"
         THEN GlobMatch(Tail(pattern), Tail(segs)) \/ GlobMatch(pattern, Tail(segs))
         ELSE Head(pattern) = Head(segs) /\ GlobMatch(Tail(pattern), Tail(segs))

\* the keys reset_limits deletes: scan_iter(match=pattern) over the keys that
\* exist; limit_type "" stands for None
ResetKeys(identifier, limit_type) ==
    LET pattern == <<"rate_limit", "*", IF limit_type = "" THEN "*" ELSE limit_type>>
                   \o Segments(identifier)
    IN {k \in Keys : zset[k] # {} /\ GlobMatch(pattern, KeySegments(k))}

\* one call of rate_limiter.reset_limits(identifier, limit_type)
ResetLimits(identifier, limit_type) ==
    LET keys == ResetKeys(identifier, limit_type)
    IN  /\ zset' = [k \in Keys |-> IF k \in keys THEN {} ELSE zset[k]]
        /\ expireAt' = [k \in Keys |-> IF k \in keys THEN NoTTL ELSE expireAt[k]]
        /\ query' = [op |-> "reset_limits", identifier |-> identifier,
                     limit_type |-> limit_type, tier |-> "", at |-> now,
                     value |-> Cardinality(keys)]
        /\ UNCHANGED <<now, admitLog, calls, last, inflight, callVars>>
        /\ NoLedgerStep

\* POST /admin/users/{user_id}/reset-limits and reset_user_rate_limits
Reset ==
    \E id \in Identifiers \cup Hosts, lt \in {"", "login", "registration"} :
        ResetLimits(id, lt)

\* POST /auth/register behind @ip_rate_limit("registration", 3, 86400): the
\* handler runs when the check admits the call, else 429
Register ==
    /\ \E host \in Hosts :
            CheckRateLimitCall(host, "registration", "free",
                               WindowSeconds, RegistrationMaxRequests, {})
    /\ NoLedgerStep

\* POST /auth/login behind @rate_limit("login"): no user among the arguments,
\* so the identifier is the client's host and the tier free
HostLogin ==
    /\ \E host \in Hosts : CheckRateLimitCall(host, "login", "free", 0, 0, {})
    /\ NoLedgerStep

RegistrationNext == Tick \/ Register

\* registrations over time
SpecRegistration == LimiterOnlyInit /\ [][RegistrationNext]_vars

ResetNext == Register \/ HostLogin \/ Reset

\* the calls of the unauthenticated endpoints and the resets of limits, at
\* one point in time
SpecReset == LimiterOnlyInit /\ [][ResetNext]_vars

QueryNext == Tick \/ HealthyCheck \/ RemainingQuery

\* a decorator that runs the handler whatever the limiter said
HandlerRunsAnyway(allowed) == TRUE

\* rate_limit.wrapper, lines 255-259: the handler is awaited unless
\* RateLimitExceeded was raised
HandlerRuns(allowed) == allowed

\* an endpoint behind @rate_limit(limit_type), called with a user among its
\* arguments (found = "user"), with only a request ("request", by host) or
\* with neither ("none"); the response is the handler's (200) or the 429 of
\* RateLimitExceeded with its Retry-After header
LimitedEndpoint(found, host, limit_type) ==
    IF found = "none"
    THEN /\ ret' = [fn |-> "rate_limit.wrapper", args |-> <<found, limit_type>>,
                    handler_ran |-> TRUE, status |-> 200, retry_after |-> 0]
         /\ UNCHANGED <<limiterVars, args>>
         /\ NoLedgerStep
    ELSE /\ AwaitCheckRateLimit(IF found = "user" THEN UserId ELSE host, limit_type,
                                IF found = "user" THEN acctTier ELSE "free", 0, 0, {})
         /\ NoLedgerStep
         /\ UNCHANGED args
         /\ ret' = [fn |-> "rate_limit.wrapper", args |-> <<found, limit_type>>,
                    handler_ran |-> HandlerRuns(last'.allowed),
                    status |-> IF last'.allowed THEN 200 ELSE 429,
                    retry_after |-> IF last'.allowed THEN 0 ELSE last'.retry_after]

Endpoint ==
    \E found \in {"user", "request", "none"}, host \in Hosts :
        LimitedEndpoint(found, host, "login")

DecoratorNext == Tick \/ Endpoint

\* the calls of an endpoint behind @rate_limit
SpecDecorator == LimiterOnlyInit /\ [][DecoratorNext]_vars

RaceNext == Tick \/ SoloLogin \/ Begin \/ Prune \/ Count \/ Insert \/ Expire

\* two callers whose calls on one key may overlap, among calls that do not
SpecRace == LimiterOnlyInit /\ [][RaceNext]_vars

BoundaryNext == Tick \/ LoginCheck \/ RemainingQuery \/ UsageQuery

\* the three operations that count the entries of a window, over time
SpecBoundary == LimiterOnlyInit /\ [][BoundaryNext]_vars

UsageNext == Tick \/ HealthyCheck \/ UsageQuery

\* checks and usage snapshots over a store that answers
SpecUsage == LimiterOnlyInit /\ [][UsageNext]_vars

\* checks and queries over a store that answers
SpecQuery == LimiterOnlyInit /\ [][QueryNext]_vars

\* the limiter over a store whose operations may fail
SpecLimiterFaulty == LimiterOnlyInit /\ [][FaultyNext]_vars

\* ------------------------------------------------------- content generation
\* POST /content/generate: topic check, cost, balance check, session row,
\* commit, task dispatch.  dbFails: the commit of the new row raises.
GenerateContent(content_type, include_images, is_safe, dbFails) ==
    LET credit_cost == calculate_content_cost(content_type, acctTier, include_images)
        sid == Len(sessions) + 1
    IN  /\ Len(sessions) < MaxSessions
        /\ IF ~is_safe
           THEN /\ resp' = [op |-> "generate", code |-> 400, cost |-> 0]
                /\ UNCHANGED <<sessions, queue>>
           ELSE IF InsufficientCredits(credits, credit_cost)
           THEN /\ resp' = [op |-> "generate", code |-> 402, cost |-> credit_cost]
                /\ UNCHANGED <<sessions, queue>>
           ELSE IF dbFails
           THEN /\ resp' = [op |-> "generate", code |-> 500, cost |-> credit_cost]
                /\ UNCHANGED <<sessions, queue>>
           ELSE /\ sessions' = Append(sessions,
                        [status |-> "pending", cost |-> credit_cost, charged |-> FALSE,
                         content |-> FALSE, regeneration_count |-> 0, note |-> "",
                         regenerations |-> 0, deleted |-> FALSE])
                /\ queue' = [queue EXCEPT ![sid] = @ + 1]
                /\ resp' = [op |-> "generate", code |-> 200, cost |-> credit_cost]
        /\ UNCHANGED <<acctTier, credits, credits0, txs, worker, earning>>
        /\ UNCHANGED <<limiterVars, callVars>>

Generate ==
    \E req \in Requests, safe \in BOOLEAN, dbFails \in BOOLEAN :
        GenerateContent(req[1], req[2], safe, dbFails)

\* generate_content_task, lines 427-451: the worker takes a task, marks the
\* session PROCESSING, commits; the next attribute access reloads the row
WorkerStart(r) ==
    /\ worker[r].pc = "idle"
    /\ queue[SessionOf(r)] > 0
    /\ queue' = [queue EXCEPT ![SessionOf(r)] = @ - 1]
    /\ sessions' = [sessions EXCEPT ![SessionOf(r)].status = "processing"]
    /\ worker' = [worker EXCEPT ![r] =
            [IdleWorker EXCEPT !.pc = "started", !.readCharged = sessions[SessionOf(r)].charged]]
    /\ UNCHANGED <<acctTier, credits, credits0, txs, earning>>
    /\ resp' = NoResponse
    /\ UNCHANGED <<limiterVars, callVars>>

\* the session row as the database holds it once the store block (lines
\* 576-614) has run: the block only changes the in-memory object
RowAfterStore(row) == row

\* a worker that charges the session before it generates: a failed run keeps
\* the charge
WorkerGenerateCharging(r, outcome) ==
    /\ worker[r].pc = "started"
    /\ IF outcome = "ok"
       THEN /\ worker' = [worker EXCEPT ![r].pc = "stored"]
            /\ UNCHANGED <<sessions, credits>>
       ELSE /\ sessions' = [sessions EXCEPT
                    ![SessionOf(r)].status = IF outcome = "unsafe" THEN "rejected" ELSE "failed",
                    ![SessionOf(r)].note = outcome]
            /\ credits' = credits - sessions[SessionOf(r)].cost
            /\ worker' = [worker EXCEPT ![r] = [IdleWorker EXCEPT !.result = "failed"]]
    /\ UNCHANGED <<acctTier, credits0, txs, queue, earning>>
    /\ resp' = NoResponse
    /\ UNCHANGED <<limiterVars, callVars>>

\* lines 489-627: generation, safety check and storing of the content.
\* A failure commits FAILED / REJECTED and ends the task
WorkerGenerate(r, outcome) ==
    /\ worker[r].pc = "started"
    /\ IF outcome = "ok"
       THEN /\ worker' = [worker EXCEPT ![r].pc = "stored"]
            /\ sessions' = [sessions EXCEPT ![SessionOf(r)] = RowAfterStore(@)]
       ELSE /\ sessions' = [sessions EXCEPT
                    ![SessionOf(r)].status = IF outcome = "unsafe" THEN "rejected" ELSE "failed",
                    ![SessionOf(r)].note = outcome]
            /\ worker' = [worker EXCEPT ![r] =
                    [IdleWorker EXCEPT
                        !.result = IF outcome = "unsafe" THEN "rejected" ELSE "failed"]]
    /\ UNCHANGED <<acctTier, credits, credits0, txs, queue, earning>>
    /\ resp' = NoResponse
    /\ UNCHANGED <<limiterVars, callVars>>

\* lines 629-663: the charge block.  The user row is read here; the new
\* balance is computed from that read and written by the commit.
\* queryFails: db.query(User) raises a database error
WorkerCharge(r, queryFails) ==
    LET cost == sessions[SessionOf(r)].cost
    IN  /\ worker[r].pc = "stored"
        /\ worker' = [worker EXCEPT ![r] =
              IF worker[r].readCharged
              THEN [@ EXCEPT !.pc = "commit"]
              ELSE IF queryFails
              THEN [@ EXCEPT !.pc = "commit", !.note = "credit_error", !.aborted = TRUE,
                             !.dbError = TRUE]
              ELSE IF InsufficientCredits(credits, cost)
              THEN [@ EXCEPT !.pc = "commit", !.note = "credit_error"]
              ELSE [@ EXCEPT !.pc = "commit", !.readCredits = credits, !.charge = TRUE]]
        /\ UNCHANGED <<acctTier, credits, credits0, sessions, txs, queue, earning>>
        /\ resp' = NoResponse
        /\ UNCHANGED <<limiterVars, callVars>>

\* a commit that goes through after a statement of its transaction failed
CommitDespiteFailedStatement(aborted, commitFails) == ~commitFails

\* the commit of lines 665-680 goes through unless it raises; it raises when
\* the database fails at the commit, and when a statement of the same
\* transaction already failed (PostgreSQL refuses further statements of a
\* failed transaction, SQLAlchemy those of an invalidated connection)
CommitSucceeds(aborted, commitFails) == ~aborted /\ ~commitFails

\* lines 665-692: one commit writes the content, the COMPLETED status, the
\* new balance, the transaction row and credits_charged; on failure rollback
WorkerCommit(r, commitFails) ==
    LET cost == sessions[SessionOf(r)].cost
        me == worker[r]
    IN  /\ me.pc = "commit"
        /\ IF CommitSucceeds(me.aborted, commitFails)
           THEN /\ sessions' = [sessions EXCEPT ![SessionOf(r)] =
                        [@ EXCEPT !.status = "completed", !.content = TRUE,
                                  !.regeneration_count = 0,
                                  !.charged = IF me.charge THEN TRUE ELSE @,
                                  !.note = IF me.note # "" THEN me.note ELSE @]]
                /\ credits' = IF me.charge THEN me.readCredits - cost ELSE credits
                /\ txs' = IF me.charge
                          THEN txs (+) SetToBag({[type |-> "consumption",
                                                  amount |-> -cost, sid |-> SessionOf(r)]})
                          ELSE txs
                /\ worker' = [worker EXCEPT ![r] =
                        [IdleWorker EXCEPT !.result = "completed",
                                           !.dbError = me.dbError]]
           ELSE /\ worker' = [worker EXCEPT ![r] =
                        [IdleWorker EXCEPT !.result = "failed", !.dbError = TRUE]]
                /\ UNCHANGED <<sessions, credits, txs>>
        /\ UNCHANGED <<acctTier, credits0, queue, earning>>
        /\ resp' = NoResponse
        /\ UNCHANGED <<limiterVars, callVars>>

Start == \E s \in 1..MaxSessions : WorkerStart(s)

Generation ==
    \E s \in 1..MaxSessions, o \in {"ok", "error", "unsafe"} :
        WorkerGenerate(s, o)

Charge == \E s \in 1..MaxSessions, queryFails \in BOOLEAN : WorkerCharge(s, queryFails)

Commit == \E s \in 1..MaxSessions, commitFails \in BOOLEAN : WorkerCommit(s, commitFails)

\* ContentSession.can_regenerate
can_regenerate(row, is_expired) ==
    row.status \in {"failed", "rejected"} /\ ~is_expired

\* POST /content/{id}/regenerate behind @rate_limit("content"): the limiter
\* check of the decorator, then the handler (lines 698-764).  The field
\* regenerations of a row counts the requests that were accepted for it,
\* the field deleted tells that delete_content has returned for it since the
\* latest request for a generation
RegenerateContent(s, is_expired, failed, dbFails) ==
    /\ s \in 1..Len(sessions)
    /\ CheckRateLimitCall(UserId, "content", acctTier, 0, 0, failed)
    /\ LET row == sessions[s]
           admitted == last'.allowed
           code == IF ~admitted THEN 429
                   ELSE IF ~can_regenerate(row, is_expired) THEN 400
                   ELSE IF row.regeneration_count >= MAX_REGENERATIONS_PER_CONTENT THEN 400
                   ELSE IF InsufficientCredits(credits, row.cost) THEN 402
                   ELSE IF dbFails THEN 500
                   ELSE 200
       IN /\ resp' = NoResponse
          /\ IF code = 200
             THEN /\ sessions' = [sessions EXCEPT ![s] =
                          [@ EXCEPT !.status = "pending", !.content = FALSE,
                                    !.charged = FALSE,
                                    !.regeneration_count = @ + 1,
                                    !.regenerations = @ + 1,
                                    !.deleted = FALSE]]
                  /\ queue' = [queue EXCEPT ![s] = @ + 1]
             ELSE UNCHANGED <<sessions, queue>>
    /\ UNCHANGED <<acctTier, credits, credits0, txs, worker, earning>>

Regenerate ==
    \E s \in 1..MaxSessions, is_expired \in BOOLEAN, failed \in {{}, StoreOps},
       dbFails \in BOOLEAN :
        RegenerateContent(s, is_expired, failed, dbFails)

\* POST /content/{id}/approve: only a COMPLETED session is found
ApproveContent(s, approved) ==
    /\ s \in 1..Len(sessions)
    /\ IF sessions[s].status = "completed"
       THEN sessions' = [sessions EXCEPT
                    ![s].status = IF approved THEN "approved" ELSE "rejected"]
       ELSE UNCHANGED sessions
    /\ resp' = NoResponse
    /\ UNCHANGED <<acctTier, credits, credits0, txs, queue, worker, earning>>
    /\ UNCHANGED <<limiterVars, callVars>>

Approve == \E s \in 1..MaxSessions, approved \in BOOLEAN : ApproveContent(s, approved)

\* the credit_transactions table after the rows of one commit are inserted
RECURSIVE AddRows(_, _)
AddRows(table, rows) ==
    IF rows = <<>> THEN table
    ELSE AddRows(table (+) SetToBag({Head(rows)}), Tail(rows))

\* the transactions that no content session caused
LedgerOps == BagCardinality([t \in {x \in DOMAIN txs : x.sid = 0} |-> txs[t]])

\* worker.process_credit_purchase
ProcessCreditPurchase(amount) ==
    /\ LedgerOps < MaxLedgerOps
    /\ credits' = credits + amount
    /\ txs' = txs (+) SetToBag({[type |-> "purchase", amount |-> amount, sid |-> 0]})
    /\ UNCHANGED <<acctTier, credits0, sessions, queue, worker, earning>>
    /\ resp' = NoResponse
    /\ UNCHANGED <<limiterVars, callVars>>

Purchase == ProcessCreditPurchase(PurchaseCredits)

\* the balance adjust_user_credits writes (admin.py lines 249-255)
AdjustedCredits(balance, delta) == Max(0, balance + delta)

\* POST /admin/users/{id}/credits
AdjustUserCredits(delta) ==
    /\ LedgerOps < MaxLedgerOps
    /\ credits' = AdjustedCredits(credits, delta)
    /\ txs' = txs (+) SetToBag({[type |-> IF delta > 0 THEN "bonus" ELSE "consumption",
                                  amount |-> delta, sid |-> 0]})
    /\ UNCHANGED <<acctTier, credits0, sessions, queue, worker, earning>>
    /\ resp' = NoResponse
    /\ UNCHANGED <<limiterVars, callVars>>

AdminAdjust == \E delta \in {-AdjustBy, AdjustBy} : AdjustUserCredits(delta)

\* fixed_content.models.get_monthly_credit_cap, in tenths of a credit
get_monthly_credit_cap(user_tier) ==
    CASE user_tier = "free" -> 0
      [] user_tier = "basic" -> 20
      [] user_tier = "family" -> 30
      [] OTHER -> 0

Min(a, b) == IF a <= b THEN a ELSE b

\* UserCreditEarning.can_earn_credits
can_earn_credits(e, cap, amount) == e.credits_earned_total + amount <= cap

\* an award that ignores the cap: the whole amount is granted
GrantWithoutCap(e, cap, amount, source) ==
    <<amount,
      [credits_earned_total |-> e.credits_earned_total + amount,
       credits_earned_courses |->
           e.credits_earned_courses + (IF source = "course" THEN amount ELSE 0),
       credits_earned_bonuses |->
           e.credits_earned_bonuses + (IF source = "course" THEN 0 ELSE amount),
       cap_reached |-> IF e.credits_earned_total + amount >= cap
                       THEN TRUE ELSE e.cap_reached]>>

\* UserCreditEarning.add_credits: <<the amount granted, the row afterwards>>
add_credits(e, cap, amount, source) ==
    LET granted == IF ~can_earn_credits(e, cap, amount)
                   THEN Min(amount, Max(0, cap - e.credits_earned_total))
                   ELSE amount
    IN  IF granted > 0
        THEN <<granted,
               [credits_earned_total |-> e.credits_earned_total + granted,
                credits_earned_courses |->
                    e.credits_earned_courses + (IF source = "course" THEN granted ELSE 0),
                credits_earned_bonuses |->
                    e.credits_earned_bonuses + (IF source = "course" THEN 0 ELSE granted),
                cap_reached |-> IF e.credits_earned_total + granted >= cap
                                THEN TRUE ELSE e.cap_reached]>>
        ELSE <<granted, e>>

\* the integer the users.credits column (Integer) keeps of a balance given in
\* tenths: PostgreSQL rounds the assigned numeric to the nearest integer
ToIntegerColumn(tenths) == (tenths + 5) \div 10

\* Course.credit_reward of the courses completed, in tenths: the default 0.5,
\* 1.0 and 1.5
CreditRewards == {5, 10, 15}

\* FixedContentService._award_course_completion_credits with the bonuses of
\* _check_bonus_credit_awards; reward in tenths.  The commit fails, and all
\* is rolled back, when a transaction row has amount 0 (check_non_zero_amount)
AwardCourseCompletion(reward, perfect_score, subject_done) ==
    LET cap == get_monthly_credit_cap(acctTier)
        credits_to_award ==
            IF can_earn_credits(earning, cap, reward) THEN reward
            ELSE Max(0, cap - earning.credits_earned_total)
        course == add_credits(earning, cap, credits_to_award, "course")
        b1 == IF perfect_score /\ can_earn_credits(course[2], cap, 2)
              THEN add_credits(course[2], cap, 2, "bonus") ELSE <<0, course[2]>>
        b2 == IF subject_done /\ can_earn_credits(b1[2], cap, 5)
              THEN add_credits(b1[2], cap, 5, "bonus") ELSE <<0, b1[2]>>
        rows == <<[type |-> "bonus", amount |-> course[1] \div 10, sid |-> 0]>>
                \o (IF b1[1] > 0 THEN <<[type |-> "bonus", amount |-> 2 \div 10, sid |-> 0]>>
                    ELSE <<>>)
                \o (IF b2[1] > 0 THEN <<[type |-> "bonus", amount |-> 5 \div 10, sid |-> 0]>>
                    ELSE <<>>)
        commits == \A i \in DOMAIN rows : rows[i].amount > 0
        awarded == ~(acctTier = "free" \/ credits_to_award <= 0 \/ ~commits)
    IN  /\ LedgerOps < MaxAwards
        /\ IF ~awarded
           THEN UNCHANGED <<credits, txs, earning>>
           ELSE /\ credits' = ToIntegerColumn(credits * 10 + course[1] + b1[1] + b2[1])
                /\ txs' = AddRows(txs, rows)
                /\ earning' = b2[2]
        /\ ret' = [fn |-> "_award_course_completion_credits",
                   args |-> <<reward, perfect_score, subject_done>>,
                   row |-> earning,
                   value |-> IF awarded THEN course[1] + b1[1] + b2[1] ELSE 0]
        /\ UNCHANGED <<acctTier, credits0, sessions, queue, worker>>
        /\ resp' = NoResponse
        /\ UNCHANGED <<limiterVars, args>>

Award ==
    \E reward \in CreditRewards, perfect_score \in BOOLEAN, subject_done \in BOOLEAN :
        AwardCourseCompletion(reward, perfect_score, subject_done)

ChargeNext == Generate \/ Start \/ Generation \/ Charge \/ Commit

\* generation requests and the worker's runs on one account
SpecCharge == Init /\ [][ChargeNext]_vars

LedgerNext ==
    \/ Generate \/ Start \/ Generation \/ Charge \/ Commit
    \/ Purchase \/ AdminAdjust \/ Award

\* an account of a tier that earns course credits
EarningInit == Init /\ get_monthly_credit_cap(acctTier) > 0

\* every operation that reads or writes the account's balance
SpecLedger == EarningInit /\ [][LedgerNext]_vars

\* DELETE /content/{id}: the content and the metadata are cleared, the status
\* is set back to PENDING; the task of the session is left alone
DeleteContent(s) ==
    /\ s \in 1..Len(sessions)
    /\ sessions' = [sessions EXCEPT ![s] =
            [@ EXCEPT !.content = FALSE, !.regeneration_count = 0,
                      !.status = "pending", !.deleted = TRUE]]
    /\ resp' = NoResponse
    /\ UNCHANGED <<acctTier, credits, credits0, txs, queue, worker, earning>>
    /\ UNCHANGED <<limiterVars, callVars>>

Delete == \E s \in 1..MaxSessions : DeleteContent(s)

DeleteNext == Generate \/ Delete \/ Start \/ Generation \/ Charge \/ Commit

\* generation requests, worker runs and deletions of content
SpecDelete == Init /\ [][DeleteNext]_vars

\* no execution of a generation task is under way
NoRunInProgress == \A r \in Runs : worker[r].pc = "idle"

SequentialNext ==
    \/ Generate \/ Generation \/ Charge \/ Commit
    \/ NoRunInProgress /\ (Start \/ Purchase \/ AdminAdjust \/ Award)

\* the operations on the balance one after the other: a worker run, once
\* started, ends before the next run or ledger operation begins
SpecSequential == EarningInit /\ [][SequentialNext]_vars

PipelineNext ==
    \/ Generate \/ Regenerate \/ Approve
    \/ Start \/ Generation \/ Charge \/ Commit

\* the content key of the account
ContentKey == <<"free", "content", UserId>>

\* the limiter after n admitted content requests of the account, one per
\* tick from tick 0 on, met at tick MaxRequests (all n inside the window)
WarmLimiter(n) ==
    /\ now = MaxRequests
    /\ zset = [k \in Keys |-> IF k = ContentKey THEN 0..(n - 1) ELSE {}]
    /\ expireAt = [k \in Keys |->
            IF k = ContentKey /\ n > 0
            THEN (n - 1) + WindowSeconds * TicksPerSecond ELSE NoTTL]
    /\ admitLog = [k \in Keys |->
            IF k = ContentKey THEN [i \in 1..n |-> i - 1] ELSE <<>>]
    /\ calls = n
    /\ last = IF n = 0 THEN NoCall
              ELSE [key |-> ContentKey, at |-> n - 1, allowed |-> TRUE,
                    remaining |-> MaxRequests - n, retry_after |-> 0,
                    failed |-> {}, limited |-> TRUE, limits |-> <<0, 0>>]
    /\ query = NoQuery
    /\ inflight = [p \in Callers |-> NoInflight]

\* an account with credits, whose content quota is unused, partly used or used up
PipelineInit ==
    /\ LedgerInit /\ acctTier = "free" /\ credits0 = MaxCredits
    /\ NoCallInit
    /\ \E n \in 0..MaxRequests : WarmLimiter(n)

\* the requests that dispatch generation tasks, behind limiter and credit check
SpecPipeline == PipelineInit /\ [][PipelineNext]_vars

\* task_acks_late / task_reject_on_worker_lost: a task is acknowledged only
\* when its execution has returned, so the broker may hand a task that was
\* started to a worker once more, while the first execution still runs or
\* after it has finished
Redeliver ==
    /\ \E s \in 1..Len(sessions) :
          /\ worker[s].pc # "idle" \/ worker[s].result # ""
          /\ worker[MaxSessions + s].pc = "idle" /\ worker[MaxSessions + s].result = ""
          /\ queue[s] = 0
          /\ queue' = [queue EXCEPT ![s] = 1]
    /\ UNCHANGED <<acctTier, credits, credits0, sessions, txs, worker, earning>>
    /\ resp' = NoResponse
    /\ UNCHANGED <<limiterVars, callVars>>

\* one step of an execution of generate_content_task, first or second
TaskStep(r) ==
    \/ WorkerStart(r)
    \/ \E o \in {"ok", "error", "unsafe"} : WorkerGenerate(r, o)
    \/ \E queryFails \in BOOLEAN : WorkerCharge(r, queryFails)
    \/ \E commitFails \in BOOLEAN : WorkerCommit(r, commitFails)

Execution == \E r \in Runs : TaskStep(r)

RedeliveryNext == Generate \/ Redeliver \/ Execution

\* generation requests whose tasks may be executed twice
SpecRedelivery == Init /\ [][RedeliveryNext]_vars

\* the account's first POST /content/generate, for a story without images
\* (one credit)
GenerateStory ==
    /\ sessions = <<>>
    /\ \E safe \in BOOLEAN, dbFails \in BOOLEAN :
        GenerateContent("story", FALSE, safe, dbFails)

RegenerationNext ==
    \/ GenerateStory \/ Regenerate \/ Approve
    \/ Start \/ Generation \/ Charge \/ Commit

\* the life of one session cheap enough to be generated again and again
SpecRegeneration == PipelineInit /\ [][RegenerationNext]_vars

Next == LedgerNext \/ Regenerate \/ Approve \/ Tick
           \/ HealthyCheck \/ LoginCheck \/ FaultyCheck

Spec == Init /\ [][Next]_vars

\* ------------------------------------------------- functions called alone
\* the tiers calculate_content_cost is called with: the subscription tiers
\* and the two further keys of its multiplier table
CostTiers == UserTier \cup {"premium", "enterprise"}

CostArgs == [fn : {"calculate_content_cost"}, content_type : ContentType,
             user_tier : CostTiers, include_images : BOOLEAN]

\* amounts passed to add_credits, in tenths: nothing, the two bonuses (0.2,
\* 0.5) and rewards of 1.0 and 1.5 credits
AwardAmounts == {0, 2, 5, 10, 15}

AwardArgs == [fn : {"add_credits"}, amount : AwardAmounts, source : {"course", "bonus"}]

\* the user_credit_earnings rows add_credits can meet: its own results, from
\* the empty row up to the cap (monthly_cap is set when the row is created)
EarningRows(cap) ==
    { [credits_earned_total |-> t, credits_earned_courses |-> t,
       credits_earned_bonuses |-> 0, cap_reached |-> t >= cap] : t \in 0..cap }

\* the row get_or_create_monthly_earning creates
NewEarning == [credits_earned_total |-> 0, credits_earned_courses |-> 0,
               credits_earned_bonuses |-> 0, cap_reached |-> FALSE]

\* one function, about to be called once with arguments of its domain
FunctionsInit ==
    /\ LimiterInit
    /\ acctTier \in {"basic", "family"}
    /\ credits0 = 0 /\ credits = 0
    /\ sessions = <<>> /\ txs = EmptyBag
    /\ queue = [s \in 1..MaxSessions |-> 0]
    /\ worker = [r \in Runs |-> IdleWorker]
    /\ resp = NoResponse
    /\ ret = NoArgs
    /\ \/ args \in CostArgs /\ earning = NewEarning
       \/ args \in AwardArgs /\ earning \in EarningRows(get_monthly_credit_cap(acctTier))

\* models.calculate_content_cost(content_type, user_tier, include_images)
CalculateContentCost ==
    /\ args.fn = "calculate_content_cost"
    /\ ret' = [fn |-> args.fn, args |-> args,
               value |-> calculate_content_cost(args.content_type, args.user_tier,
                                                args.include_images)]
    /\ NoLedgerStep
    /\ UNCHANGED <<limiterVars, args>>

\* UserCreditEarning.add_credits(amount, source) on the row of the month
AddCredits ==
    /\ args.fn = "add_credits"
    /\ ret = NoArgs
    /\ LET r == add_credits(earning, get_monthly_credit_cap(acctTier),
                            args.amount, args.source)
       IN /\ earning' = r[2]
          /\ ret' = [fn |-> args.fn, args |-> args, row |-> earning, value |-> r[1]]
    /\ resp' = NoResponse
    /\ UNCHANGED <<acctTier, credits, credits0, sessions, txs, queue, worker>>
    /\ UNCHANGED <<limiterVars, args>>

FunctionsNext == CalculateContentCost \/ AddCredits

SpecFunctions == FunctionsInit /\ [][FunctionsNext]_vars

\* ------------------------------------------------------- course completions
\* an account of a paid tier at the start of a month
EarningOnlyInit ==
    /\ LimiterInit /\ NoCallInit
    /\ acctTier \in {"basic", "family"}
    /\ credits0 \in 0..MaxCredits
    /\ credits = credits0
    /\ sessions = <<>> /\ txs = EmptyBag
    /\ queue = [s \in 1..MaxSessions |-> 0]
    /\ worker = [r \in Runs |-> IdleWorker]
    /\ resp = NoResponse
    /\ earning = NewEarning

\* the course completions of one account in one month
SpecEarning == EarningOnlyInit /\ [][Award]_vars

\* ------------------------------------------------------------ limiter claims
\* C1: for sequential calls on one key with quota Q and window W, at most Q
\* calls are admitted in any rolling W-second interval (admitLog holds the
\* admissions of the window that ends now, and every admission happens at now)
C1_WindowCorrectness ==
    \A k \in Keys : Len(admitLog[k]) <= MaxRequests

\* C2: a call rejected at time t with retry_after = r is followed, when no
\* other call touches the key, by an admitted call at time exactly t + r
C2_RetryAfterAccurate ==
    [][ ( /\ calls' = calls + 1
          /\ last.limited /\ ~last.allowed
          /\ last'.limited /\ last'.key = last.key
          /\ now = last.at + last.retry_after * TicksPerSecond )
        => last'.allowed ]_limiterVars

\* C3: a check_rate_limit call during which a store operation failed returns
\* allowed = true
C3_FailOpen ==
    last.failed # {} => last.allowed

\* ------------------------------------------------------------- ledger claims
\* C4: the balance is never negative, and a consumption is only applied when
\* its cost does not exceed the balance it is subtracted from (the balance the
\* worker read for a charge, the current balance for an admin adjustment)
C4_BalanceNonNegative ==
    [][ /\ credits >= 0 /\ credits' >= 0
        /\ \A t \in DOMAIN txs' :
              (t.type = "consumption" /\ CopiesIn(t, txs') > CopiesIn(t, txs))
              => -t.amount <= (IF t.sid = 0 THEN credits
                               ELSE worker[t.sid].readCredits) ]_vars

\* the sum of credits_cost over the first n sessions marked credits_charged
RECURSIVE ChargedCost(_)
ChargedCost(n) ==
    IF n = 0 THEN 0
    ELSE ChargedCost(n - 1) + (IF sessions[n].charged THEN sessions[n].cost ELSE 0)

\* C5: when generation tasks charge the same account, the balance equals the
\* initial balance minus the costs of all sessions marked charged
C5_CreditConservation ==
    credits = credits0 - ChargedCost(Len(sessions))

\* C6: a generation request that arrives with balance < cost is answered 402
\* and creates no session, dispatches no task and leaves balance and
\* transaction log as they were; one that arrives with balance >= cost is
\* admitted: its session is created with that cost and its task dispatched
C6_DeclinedWithoutMutation ==
    [][ (resp'.op = "generate" /\ resp'.code \notin {400, 500})
        => IF credits < resp'.cost
           THEN /\ resp'.code = 402
                /\ UNCHANGED <<sessions, queue, credits, txs>>
           ELSE /\ resp'.code = 200
                /\ Len(sessions') = Len(sessions) + 1
                /\ sessions'[Len(sessions')].cost = resp'.cost
                /\ queue'[Len(sessions')] = queue[Len(sessions')] + 1 ]_vars

\* the claim's example: with balance 3 a request of cost 4 has just been declined
C6_Declined ==
    /\ resp.op = "generate" /\ resp.code = 402 /\ resp.cost = 4
    /\ credits = 3 /\ sessions = <<>> /\ txs = EmptyBag

\* C7: at the step that dispatches a generation task the cost of the request
\* has been deducted from the balance
C7_ReserveBeforeDispatch ==
    [][ \A s \in 1..MaxSessions :
            queue'[s] > queue[s] => credits' = credits - sessions'[s].cost ]_vars

\* C8: every dispatch of a generation task happens in a request in which the
\* limiter admitted a check on the account's content key and the balance
\* covered the cost; a request the limiter rejects changes neither sessions,
\* queue nor ledger
C8_AdmissionPipelineOrder ==
    [][ /\ \A s \in 1..MaxSessions :
              queue'[s] > queue[s]
              => /\ calls' = calls + 1
                 /\ last'.key = <<acctTier, "content", UserId>>
                 /\ last'.allowed
                 /\ credits >= sessions'[s].cost
        /\ (calls' = calls + 1 /\ ~last'.allowed)
              => UNCHANGED <<sessions, queue, credits, txs>> ]_vars

\* C9: a COMPLETED session is marked charged and has exactly one consumption
\* transaction of amount -cost
C9_CompletedIsCharged ==
    \A s \in DOMAIN sessions :
        sessions[s].status = "completed"
        => /\ sessions[s].charged
           /\ CopiesIn([type |-> "consumption", amount |-> -sessions[s].cost,
                        sid |-> s], txs) = 1

C11_NoChargeOnFailure ==
    [][ \A s \in DOMAIN sessions' :
          ( /\ sessions'[s].status \in {"pending", "processing", "failed", "rejected"}
            /\ (s \notin DOMAIN sessions \/ sessions[s].status # sessions'[s].status) )
          => /\ credits' = credits
             /\ txs' = txs
             /\ ~sessions'[s].charged ]_vars

\* a run has ended FAILED after a request the balance covered; the balance
\* is the one from before the request
C11_FailedRunUncharged ==
    \E s \in DOMAIN sessions :
        /\ sessions[s].status = "failed" /\ worker[s].pc = "idle"
        /\ credits = credits0 /\ credits0 >= sessions[s].cost
        /\ txs = EmptyBag

\* ------------------------------------------------------------ cost claims
\* C12: calculate_content_cost(content_type, tier, include_images) is
\* max(1, floor((base + surcharge) * multiplier)) with base story 1,
\* worksheet 2, quiz 2, exercise 1 and surcharge 2 iff include_images; it is
\* at least 1, and for tier free a story without images costs 1 and a
\* worksheet with images 4
C12_CostFormula ==
    ret.fn = "calculate_content_cost" =>
        LET a == ret.args
            base == CASE a.content_type = "story" -> 1
                      [] a.content_type = "worksheet" -> 2
                      [] a.content_type = "quiz" -> 2
                      [] a.content_type = "exercise" -> 1
            surcharge == IF a.include_images THEN 2 ELSE 0
            floor == ((base + surcharge) * tier_multipliers(a.user_tier)) \div 10
        IN  /\ ret.value = (IF floor >= 1 THEN floor ELSE 1)
            /\ ret.value >= 1
            /\ (a.user_tier = "free" /\ a.content_type = "story" /\ ~a.include_images)
                    => ret.value = 1
            /\ (a.user_tier = "free" /\ a.content_type = "worksheet" /\ a.include_images)
                    => ret.value = 4

\* the cost of a worksheet with images was computed for tier free, and the
\* cost of a story without images for a tier whose product is below 1
C12_Quoted ==
    /\ ret.fn = "calculate_content_cost"
    /\ \/ /\ ret.args = [fn |-> "calculate_content_cost", content_type |-> "worksheet",
                         user_tier |-> "free", include_images |-> TRUE]
          /\ ret.value = 4
       \/ /\ ret.args = [fn |-> "calculate_content_cost", content_type |-> "story",
                         user_tier |-> "enterprise", include_images |-> FALSE]
          /\ ret.value = 1

\* C13: for the paid subscription tiers basic and family the quoted cost
\* never exceeds the free-tier cost of the same request, and is strictly
\* lower for at least one request
C13_PaidTierDiscount ==
    ( /\ ret.fn = "calculate_content_cost"
      /\ ret.args.user_tier \in {"basic", "family"} ) =>
        /\ ret.value <= calculate_content_cost(ret.args.content_type, "free",
                                               ret.args.include_images)
        /\ \E ct \in ContentType, img \in BOOLEAN :
                calculate_content_cost(ct, ret.args.user_tier, img)
                    < calculate_content_cost(ct, "free", img)

\* ------------------------------------------------------ earned credit claims
\* C14: add_credits(amount) returns 0 when credits_earned_total >= monthly_cap,
\* amount when credits_earned_total + amount <= monthly_cap, and otherwise
\* min(amount, monthly_cap - credits_earned_total); what it returns never
\* exceeds monthly_cap - credits_earned_total
C14_CappedAward ==
    ret.fn = "add_credits" =>
        LET total == ret.row.credits_earned_total
            amount == ret.args.amount
            monthly_cap == get_monthly_credit_cap(acctTier)
        IN  /\ total >= monthly_cap => ret.value = 0
            /\ total + amount <= monthly_cap => ret.value = amount
            /\ (total < monthly_cap /\ total + amount > monthly_cap)
                    => ret.value = (IF amount <= monthly_cap - total
                                    THEN amount ELSE monthly_cap - total)
            /\ ret.value <= monthly_cap - total

\* add_credits(0.5) was called on a row with 1.8 earned under a cap of 2.0
\* and returned the remainder 0.2
C14_RemainderGranted ==
    /\ ret.fn = "add_credits"
    /\ get_monthly_credit_cap(acctTier) = 20
    /\ ret.row.credits_earned_total = 18
    /\ ret.args.amount = 5
    /\ ret.value = 2

\* C15: after any sequence of course-completion and bonus awards of a month
\* credits_earned_total <= monthly_cap, cap_reached is true exactly when
\* credits_earned_total has reached monthly_cap, and the award that would
\* cross the cap grants the remainder and no more
C15_MonthlyCap ==
    LET monthly_cap == get_monthly_credit_cap(acctTier)
    IN  /\ earning.credits_earned_total <= monthly_cap
        /\ earning.cap_reached <=> earning.credits_earned_total >= monthly_cap
        /\ ( /\ ret.fn = "_award_course_completion_credits"
             /\ ret.row.credits_earned_total < monthly_cap
             /\ ret.row.credits_earned_total + ret.args[1] > monthly_cap )
            => /\ ret.value = monthly_cap - ret.row.credits_earned_total
               /\ earning.credits_earned_total = monthly_cap

\* ------------------------------------------------------------ query claims
\* C16: for one key, with no admitted check_rate_limit in between, a
\* get_remaining_requests call made at the same or a later time than the
\* previous one returns at least what the previous one returned, and
\* get_remaining_requests inserts no entry
C16_RemainingMonotone ==
    [][ ( /\ query'.op = "get_remaining_requests"
          /\ calls' = calls /\ now' = now )
        => /\ \A k \in Keys : zset'[k] \subseteq zset[k]
           /\ ( /\ query.op = "get_remaining_requests"
                /\ query.identifier = query'.identifier
                /\ query.limit_type = query'.limit_type
                /\ query.tier = query'.tier )
              => query'.value >= query.value ]_vars

\* a query on a key that check_rate_limit had filled found the whole quota
\* free again once the entries had left the window
C16_QuotaFreeAgain ==
    /\ query.op = "get_remaining_requests"
    /\ query.value = MaxRequests
    /\ query.at = now
    /\ last.allowed /\ last.limited
    /\ last.key = <<query.tier, query.limit_type, query.identifier>>
    /\ zset[last.key] = {}

\* C17: a check_rate_limit call for a (tier, limit_type) that has no entry
\* in RATE_LIMITS, made without explicit limits, is admitted with remaining
\* 999 and retry_after 0, meets no error and leaves the store as it was
C17_MissingPolicyUnlimited ==
    [][ ( /\ calls' = calls + 1
          /\ ~(last'.key[1] \in DOMAIN RATE_LIMITS
               /\ last'.key[2] \in DOMAIN RATE_LIMITS[last'.key[1]])
          /\ last'.limits = <<0, 0>> )
        => /\ last'.allowed
           /\ last'.remaining = 999
           /\ last'.retry_after = 0
           /\ last'.failed = {}
           /\ zset' = zset /\ expireAt' = expireAt ]_vars

\* the last of several calls was made for an unconfigured limit type without
\* explicit limits and was admitted as unlimited, at a time when an explicit
\* quota on the same key is used up
C17_UnlimitedCall ==
    /\ calls >= MaxRequests + 1
    /\ last.key[2] = "custom" /\ last.limits = <<0, 0>>
    /\ last.allowed /\ last.remaining = 999
    /\ Cardinality(zset[last.key]) >= MaxRequests

\* ----------------------------------------------------------- access claims
\* C18: with @ip_rate_limit("registration", 3, 86400) on the registration
\* endpoint at most 3 registrations of one IP are admitted within a window
\* (counted here: the registrations admitted at different times), so that
\* the 4th is rejected
C18_RegistrationLimit ==
    \A host \in Hosts :
        LET log == admitLog[<<"free", "registration", host>>]
        IN Cardinality({log[i] : i \in DOMAIN log}) <= RegistrationMaxRequests

\* C19: reset_limits(identifier) empties every key of the identifier, for
\* every tier and limit type; reset_limits(identifier, limit_type) empties
\* the keys of that limit type and leaves the identifier's other keys as they
\* were; in both cases the entries of every other identifier are unchanged
C19_ResetFrame ==
    [][ ( /\ query'.op = "reset_limits"
          /\ calls' = calls /\ now' = now )
        => \A k \in Keys :
              IF k[3] = query'.identifier
                 /\ (query'.limit_type = "" \/ k[2] = query'.limit_type)
              THEN zset'[k] = {}
              ELSE zset'[k] = zset[k] ]_vars

\* C20: get_usage_stats(identifier, tier) reports for every limit type
\* configured under the tier used = the number of unexpired entries of the
\* key check_rate_limit uses, remaining = max(0, limit - used) and reset_at =
\* oldest entry + window, and inserts no entry; a check_rate_limit call on
\* such a key made right after the snapshot is admitted iff the reported
\* remaining is above 0
C20_SnapshotAgrees ==
    [][ /\ ( /\ query'.op = "get_usage_stats"
             /\ calls' = calls /\ now' = now )
           => /\ \A k \in Keys : zset'[k] \subseteq zset[k]
              /\ \A lt \in DOMAIN RATE_LIMITS[query'.tier] :
                    LET limit == RATE_LIMITS[query'.tier][lt][1]
                        window == RATE_LIMITS[query'.tier][lt][2] * TicksPerSecond
                        live == {e \in zset[<<query'.tier, lt, query'.identifier>>] :
                                    e > now - window}
                        entry == query'.value[lt]
                    IN /\ entry.used = Cardinality(live)
                       /\ entry.remaining = (IF limit - entry.used > 0
                                             THEN limit - entry.used ELSE 0)
                       /\ live # {} =>
                            /\ entry.reset_at \in {e + window : e \in live}
                            /\ \A e \in live : entry.reset_at <= e + window
        /\ ( /\ calls' = calls + 1
             /\ query.op = "get_usage_stats" /\ query.at = now
             /\ last'.key[1] = query.tier /\ last'.key[3] = query.identifier
             /\ last'.key[2] \in DOMAIN RATE_LIMITS[query.tier] )
           => (last'.allowed <=> query.value[last'.key[2]].remaining > 0) ]_vars

\* a snapshot reported the login quota of the account as used up, with the
\* time at which the oldest entry leaves the window, and a check_rate_limit
\* call on that key at the same time was rejected
C20_SnapshotThenRejected ==
    /\ query.op = "get_usage_stats" /\ query.at = now
    /\ query.value["login"].used = MaxRequests
    /\ query.value["login"].remaining = 0
    /\ query.value["login"].reset_at
            = Oldest(zset[<<query.tier, "login", query.identifier>>])
              + WindowSeconds * TicksPerSecond
    /\ last.at = now /\ ~last.allowed
    /\ last.key = <<query.tier, "login", query.identifier>>

\* ---------------------------------------------------------- window claims
\* C21: an entry recorded at time t counts toward the quota at every time
\* < t + W and at no time >= t + W, and check_rate_limit,
\* get_remaining_requests and get_usage_stats all count with this boundary:
\* each decides and reports on the entries e of the key with now < e + W
C21_WindowBoundary ==
    [][ LET Q(k) == RATE_LIMITS[k[1]][k[2]][1]
            W(k) == RATE_LIMITS[k[1]][k[2]][2] * TicksPerSecond
            live(k) == {e \in zset[k] : now < e + W(k)}
        IN  /\ (calls' = calls + 1 /\ last'.limited)
               => /\ last'.allowed <=> Cardinality(live(last'.key)) < Q(last'.key)
                  /\ last'.allowed
                        => last'.remaining
                            = Q(last'.key) - Cardinality(live(last'.key)) - 1
                  /\ zset'[last'.key] \cap zset[last'.key] = live(last'.key)
            /\ ( /\ calls' = calls /\ now' = now
                 /\ query'.op = "get_remaining_requests"
                 /\ query'.limit_type \in DOMAIN RATE_LIMITS[query'.tier] )
               => LET k == <<query'.tier, query'.limit_type, query'.identifier>>
                  IN /\ query'.value = Max(0, Q(k) - Cardinality(live(k)))
                     /\ zset'[k] = live(k)
            /\ ( /\ calls' = calls /\ now' = now
                 /\ query'.op = "get_usage_stats" )
               => \A lt \in DOMAIN RATE_LIMITS[query'.tier] :
                     LET k == <<query'.tier, lt, query'.identifier>>
                     IN /\ query'.value[lt].used = Cardinality(live(k))
                        /\ zset'[k] = live(k) ]_vars

\* the latest admitted call is exactly one window old, and a
\* get_remaining_requests call made now found the whole quota free
C21_ExactlyWindowOld ==
    /\ query.op = "get_remaining_requests" /\ query.at = now
    /\ last.limited /\ last.allowed
    /\ last.key = <<query.tier, query.limit_type, query.identifier>>
    /\ last.at = now - WindowSeconds * TicksPerSecond
    /\ query.value = MaxRequests

\* C22: every admitted check_rate_limit adds exactly one entry to its key:
\* after k admitted calls inside one window the key holds k entries of that
\* window and the latest admitted call returned remaining = Q - k, also when
\* two admitted calls saw the same clock value
C22_OneEntryPerAdmission ==
    /\ \A k \in Keys :
          Cardinality({e \in zset[k] : now < e + WindowSeconds * TicksPerSecond})
            = Len(admitLog[k])
    /\ (last.limited /\ last.allowed /\ last.at = now)
          => last.remaining = MaxRequests - Len(admitLog[last.key])

\* C23: a rejected check_rate_limit inserts no entry and does not refresh the
\* expiry of the key: it removes expired entries only, leaves every other
\* key alone, and the time at which the oldest entry leaves the window (when
\* the caller is admitted again) stays what it was
C23_RejectionLeavesKey ==
    [][ (calls' = calls + 1 /\ last'.limited /\ ~last'.allowed)
        => LET k == last'.key
               W == WindowSeconds * TicksPerSecond
               live == {e \in zset[k] : now < e + W}
           IN /\ zset'[k] = live
              /\ live # {}
              /\ Oldest(zset'[k]) = Oldest(live)
              /\ expireAt'[k] = expireAt[k]
              /\ \A o \in Keys \ {k} : zset'[o] = zset[o] /\ expireAt'[o] = expireAt[o] ]_vars

\* the quota was used up by earlier calls and the last two calls, made later,
\* were rejected; the key still expires one window after the last admitted
\* call
C23_RejectedTwice ==
    /\ calls = MaxRequests + 2
    /\ last.limited /\ ~last.allowed /\ last.at = now
    /\ Cardinality(zset[last.key]) = MaxRequests
    /\ \A e \in zset[last.key] : e < now
    /\ \E e \in zset[last.key] :
            expireAt[last.key] = e + WindowSeconds * TicksPerSecond

\* C24: two check_rate_limit calls on one key whose prune, count and insert
\* steps interleave while exactly one slot is left can both be admitted, which
\* puts more than Q admissions inside one window (the state C24_BothAdmitted);
\* the key holds more than Q entries of one window only in this way, after
\* both callers counted Q - 1 and both inserted
C24_OverAdmissionByRace ==
    LET Q == RATE_LIMITS["free"]["login"][1]
        W == RATE_LIMITS["free"]["login"][2] * TicksPerSecond
        live == {e \in zset[RaceKey] : now < e + W}
    IN Cardinality(live) > Q
        => \A p \in Callers :
              /\ inflight[p].pc \in {"expire", "done"}
              /\ inflight[p].count = Q - 1
              /\ inflight[p].pc = "done" => inflight[p].allowed

\* both callers were admitted at different clock values while one slot was
\* left, and the key holds Q + 1 entries that are all inside the window
C24_BothAdmitted ==
    /\ \A p \in Callers : inflight[p].pc = "done" /\ inflight[p].allowed
                          /\ inflight[p].count = MaxRequests - 1
    /\ inflight[1].t # inflight[2].t
    /\ Cardinality({e \in zset[RaceKey] : now < e + WindowSeconds * TicksPerSecond})
            = MaxRequests + 1
    /\ Len(admitLog[RaceKey]) = MaxRequests + 1

\* C25: the rate_limit decorator runs the wrapped handler only when
\* check_rate_limit admitted the call; on rejection the handler is not run
\* and the response is a 429 whose Retry-After is the returned retry_after;
\* when neither a user nor a request is among the arguments the handler runs
\* and no limit check is made
C25_DecoratorGuardsHandler ==
    [][ /\ calls' = calls + 1
           => /\ ret'.fn = "rate_limit.wrapper" /\ ret'.args[1] # "none"
              /\ ret'.handler_ran <=> last'.allowed
              /\ ~last'.allowed => /\ ret'.status = 429
                                   /\ ret'.retry_after = last'.retry_after
        /\ (calls' = calls /\ now' = now)
           => /\ ret'.fn = "rate_limit.wrapper" /\ ret'.args[1] = "none"
              /\ ret'.handler_ran
              /\ UNCHANGED <<zset, expireAt, last>> ]_vars

\* a call of the endpoint was rejected: the handler did not run and the 429
\* carries the retry_after the limiter returned
C25_Rejected ==
    /\ ret.fn = "rate_limit.wrapper" /\ ret.args[1] = "user"
    /\ ~ret.handler_ran /\ ret.status = 429
    /\ last.at = now /\ ~last.allowed
    /\ ret.retry_after = last.retry_after /\ ret.retry_after > 0

\* C26: over the whole lifetime of a content session, through any sequence
\* of worker runs, parent approvals or rejections and regenerate requests,
\* the session is regenerated at most MAX_REGENERATIONS_PER_CONTENT times
C26_RegenerationLimit ==
    \A s \in 1..Len(sessions) :
        sessions[s].regenerations <= MAX_REGENERATIONS_PER_CONTENT

\* C27: for one content session and one generation cycle (between two
\* regenerate requests) at most one consumption transaction is recorded and
\* the cost is deducted at most once, even when the same generation task is
\* executed twice, sequentially or concurrently: a session regenerated n
\* times has at most n + 1 consumption transactions, and the balance went
\* down by at most one cost per cycle
C27_ChargedOncePerCycle ==
    /\ \A s \in 1..Len(sessions) :
          BagCardinality([t \in {x \in DOMAIN txs : x.sid = s /\ x.type = "consumption"}
                            |-> txs[t]])
            <= sessions[s].regenerations + 1
    /\ LedgerOps = 0
          => credits0 - credits
               <= BagCardinality([s \in 1..Len(sessions) |->
                        sessions[s].cost * (sessions[s].regenerations + 1)])

\* C28: after any sequential series of balance mutations on one account
\* (worker charge, credit purchase, admin adjustment, course completion award
\* and bonuses) the balance equals the starting balance plus the sum of the
\* amounts of the transactions recorded, and every recorded transaction has a
\* non-zero amount
C28_LedgerConsistency ==
    NoRunInProgress =>
        /\ credits = credits0
              + BagCardinality([t \in {x \in DOMAIN txs : x.amount > 0}
                                  |-> txs[t] * t.amount])
              - BagCardinality([t \in {x \in DOMAIN txs : x.amount < 0}
                                  |-> txs[t] * (0 - t.amount)])
        /\ \A t \in DOMAIN txs : t.amount # 0

\* C29: after delete_content has returned for a session, the session's
\* generated_content stays empty and its status stays PENDING until a new
\* generation is explicitly requested, even when a generation task for that
\* session is still in flight in the worker
C29_DeletedStaysDeleted ==
    \A s \in 1..Len(sessions) :
        sessions[s].deleted => ~sessions[s].content /\ sessions[s].status = "pending"

\* C30: key expiry never frees quota early: whenever a key disappears
\* through its TTL, every entry it held was already outside the window (so
\* the limiter decides as if the key had only been pruned lazily)
C30_ExpiryFreesNothingEarly ==
    [][ \A k \in Keys :
          (now' > now /\ zset[k] # {} /\ zset'[k] = {})
             => \A e \in zset[k] : e <= now' - WindowSeconds * TicksPerSecond ]_vars
====
